---- MODULE Spec2Model ----
(***************************************************************************)
(* root-detector: the traversal of main.go.  main authenticates, then      *)
(* findContainersWithErrors lists the namespaces, the pods of each         *)
(* namespace, the containers of each pod, runs "whoami" in each container  *)
(* and sorts the container into rootContainers or errorContainers.         *)
(*                                                                         *)
(* The cluster is the environment: the answer to every remote call is      *)
(* chosen when the call is issued.  Names are strings; a probe's output is *)
(* a sequence of characters so that strings.Contains is a real search.     *)
(* A nil slice and an empty slice are both the empty sequence.  The        *)
(* Kubernetes API serves unique namespace names, unique pod names within a *)
(* namespace and unique container names within a pod spec, so every list   *)
(* answer is duplicate-free.  A step of the model is one remote call and   *)
(* the code that follows it up to the next remote call; the step that      *)
(* makes findContainersWithErrors return also runs the rest of main, which *)
(* has no remote call in it.  calls is the history of the remote calls; it *)
(* is what the properties are stated on.                                   *)
(***************************************************************************)
EXTENDS Integers, Sequences, FiniteSets, TLC

VARIABLES
    pc,                \* position of the program
    authErr,           \* the err of authenticateToCluster in main
    excludeNamespaces, \* the exclusion list handed to listNamespaces
    nsItems,           \* namespaceList.Items of the answered namespace list call
    namespaces,        \* result of listNamespaces
    err,               \* the err of the namespace listing
    i,                 \* position of the namespace loop in namespaces (1-based)
    pods,              \* result of listPods for namespaces[i]
    j,                 \* position of the pod loop in pods
    containers,        \* result of listContainers for pods[j]
    k,                 \* position of the container loop in containers
    rootContainers,    \* accumulating []ContainerInfo
    errorContainers,   \* accumulating []ContainerInfo
    result,            \* what findContainersWithErrors returned
    exitCode,          \* exit code of the process, -1 while it runs
    calls,             \* the remote calls issued so far, with their answers
    cancelled,         \* the caller has asked for the traversal to be cancelled
    unit               \* a function called on its own: its arguments and its return

vars == <<pc, authErr, excludeNamespaces, nsItems, namespaces, err, i, pods, j,
          containers, k, rootContainers, errorContainers, result, exitCode, calls,
          cancelled, unit>>

\* ------------------------------------------------------------------ bounds
\* longest namespace list the cluster answers with
MaxNamespaces == 2
\* number of pods the cluster serves over one run, all namespaces together
MaxPods == 2
\* number of containers the cluster serves over one run, all pods together
MaxContainers == 2
\* longest exclusion list a direct caller hands to listNamespaces
MaxExclude == 2
\* longest slice a direct caller hands to containsString
MaxSlice == 2

\* ------------------------------------------------------- the environment
NamespaceNames == {"default", "dev", "kube-system", "kube-public", "kube-node-lease"}
PodNames == {"busybox-pod", "web"}
ContainerNames == {"busybox", "sidecar"}

Range(s) == {s[p] : p \in 1..Len(s)}

\* duplicate-free sequences over S of length at most n
RECURSIVE InjSeqs(_, _)
InjSeqs(S, n) ==
    IF n = 0 THEN {<<>>}
    ELSE LET shorter == InjSeqs(S, n - 1)
         IN  shorter \cup
             UNION {{Append(t, x) : x \in S \ Range(t)} :
                        t \in {u \in shorter : Len(u) = n - 1}}

\* all sequences over S of length at most n
RECURSIVE AllSeqs(_, _)
AllSeqs(S, n) ==
    IF n = 0 THEN {<<>>}
    ELSE LET shorter == AllSeqs(S, n - 1)
         IN  shorter \cup {Append(t, x) : t \in shorter, x \in S}

Nil == "nil"
ErrList == "list failed"
ErrGet == "get failed"
ErrExecutor == "executor failed"
ErrStream == "stream failed"
ErrAuth == "kubeconfig failed"

\* the answers of Namespaces().List
NamespaceAnswers ==
    {[items |-> <<>>, err |-> ErrList]} \cup
    {[items |-> s, err |-> Nil] : s \in InjSeqs(NamespaceNames, MaxNamespaces)}

\* the answers of Pods(ns).List when the cluster may still serve n pods
PodAnswers(n) ==
    {[items |-> <<>>, err |-> ErrList]} \cup
    {[items |-> s, err |-> Nil] : s \in InjSeqs(PodNames, n)}

\* the answers of Pods(ns).Get: pod.Spec.Containers, n containers still served
ContainerAnswers(n) ==
    {[items |-> <<>>, err |-> ErrGet]} \cup
    {[items |-> s, err |-> Nil] : s \in InjSeqs(ContainerNames, n)}

\* what whoami may write to stdout (one element per character)
RootLine == <<"r", "o", "o", "t", "\n">>
NobodyLine == <<"n", "o", "b", "o", "d", "y", "\n">>
GrootLine == <<"g", "r", "o", "o", "t", "\n">>
Outputs == {RootLine, NobodyLine, GrootLine}
\* what a stream that breaks may have written to stdout before it broke
PartialOutputs == {<<"r", "o", "o", "t">>}

\* the behaviours of the exec channel: NewSPDYExecutor fails, or Stream
\* writes stdout and then ends with or without an error
ExecAnswers ==
    {[executorErr |-> ErrExecutor, stdout |-> <<>>, streamErr |-> Nil]} \cup
    {[executorErr |-> Nil, stdout |-> o, streamErr |-> ErrStream] : o \in PartialOutputs} \cup
    {[executorErr |-> Nil, stdout |-> o, streamErr |-> Nil] : o \in Outputs}

\* ------------------------------------------------------- pure functions
\* containsString that looks at the first element only
containsStringFirstOnly(slice, str) ==
    slice # <<>> /\ Head(slice) = str

\* containsString that takes an element that starts with str for a match
containsStringPrefix(slice, str) ==
    \E p \in 1..Len(slice) :
        Len(slice[p]) >= Len(str) /\ SubSeq(slice[p], 1, Len(str)) = str

\* containsString: the first equal element answers true
RECURSIVE containsString(_, _)
containsString(slice, str) ==
    IF slice = <<>> THEN FALSE
    ELSE IF Head(slice) = str THEN TRUE
    ELSE containsString(Tail(slice), str)

\* the loop of listNamespaces over namespaceList.Items
RECURSIVE FilterNamespaces(_, _, _)
FilterNamespaces(items, exclude, acc) ==
    IF items = <<>> THEN acc
    ELSE FilterNamespaces(Tail(items), exclude,
            IF ~containsString(exclude, Head(items))
            THEN Append(acc, Head(items))
            ELSE acc)

\* listNamespaces that swallows the error of the list call
listNamespacesNoError(answer, exclude) ==
    [names |-> FilterNamespaces(answer.items, exclude, <<>>), err |-> Nil]

listNamespaces(answer, exclude) ==
    IF answer.err # Nil
    THEN [names |-> <<>>, err |-> answer.err]
    ELSE [names |-> FilterNamespaces(answer.items, exclude, <<>>), err |-> Nil]

listPods(answer) ==
    IF answer.err # Nil
    THEN [names |-> <<>>, err |-> answer.err]
    ELSE [names |-> answer.items, err |-> Nil]

listContainers(answer) ==
    IF answer.err # Nil
    THEN [names |-> <<>>, err |-> answer.err]
    ELSE [names |-> answer.items, err |-> Nil]

\* execCommandInContainer that returns what stdout holds along with the error
execCommandInContainerKeepsStdout(answer) ==
    IF answer.executorErr # Nil THEN [output |-> <<>>, err |-> answer.executorErr]
    ELSE [output |-> answer.stdout, err |-> answer.streamErr]

execCommandInContainer(answer) ==
    IF answer.executorErr # Nil THEN [output |-> <<>>, err |-> answer.executorErr]
    ELSE IF answer.streamErr # Nil THEN [output |-> <<>>, err |-> answer.streamErr]
    ELSE [output |-> answer.stdout, err |-> Nil]

\* strings.Contains
Contains(s, substr) ==
    \E p \in 0..(Len(s) - Len(substr)) : SubSeq(s, p + 1, p + Len(substr)) = substr

RootWord == <<"r", "o", "o", "t">>

\* a root check that wants the output to be the line "root" and nothing else
IsRootExact(output) == output = <<"r", "o", "o", "t", "\n">>

IsRoot(output) == Contains(output, RootWord)

command == "whoami"

ContainerInfo(ns, pod, ctr, cmd) ==
    [Namespace |-> ns, PodName |-> pod, Container |-> ctr, CommandExec |-> cmd]

\* Classify that appends a failed container to both lists
ClassifyBoth(root, errs, info, r) ==
    IF r.err # Nil
    THEN [rootContainers |-> Append(root, info), errorContainers |-> Append(errs, info)]
    ELSE IF IsRoot(r.output)
    THEN [rootContainers |-> Append(root, info), errorContainers |-> errs]
    ELSE [rootContainers |-> root, errorContainers |-> errs]

\* Classify that logs a failed probe and records nothing
ClassifyDropErrors(root, errs, info, r) ==
    IF r.err # Nil
    THEN [rootContainers |-> root, errorContainers |-> errs]
    ELSE IF IsRoot(r.output)
    THEN [rootContainers |-> Append(root, info), errorContainers |-> errs]
    ELSE [rootContainers |-> root, errorContainers |-> errs]

\* Classify that puts a new record at the head of its list
ClassifyPrepend(root, errs, info, r) ==
    IF r.err # Nil
    THEN [rootContainers |-> root, errorContainers |-> <<info>> \o errs]
    ELSE IF IsRoot(r.output)
    THEN [rootContainers |-> <<info>> \o root, errorContainers |-> errs]
    ELSE [rootContainers |-> root, errorContainers |-> errs]

\* the body of the container loop after the probe returned r
Classify(root, errs, info, r) ==
    IF r.err # Nil
    THEN [rootContainers |-> root, errorContainers |-> Append(errs, info)]
    ELSE IF IsRoot(r.output)
    THEN [rootContainers |-> Append(root, info), errorContainers |-> errs]
    ELSE [rootContainers |-> root, errorContainers |-> errs]

\* an exclusion list with a misspelt name
DefaultExcludeTypo == <<"kube-system", "kube-public", "kube-node-release">>

DefaultExclude == <<"kube-system", "kube-public", "kube-node-lease">>

\* ------------------------------------------------------------- history
\* one remote call: what was asked, and what the cluster answered
\* (err, items and stdout are the cluster's doing: the error of the call, the
\* names it listed, what the probe's stream wrote; ret is what the function
\* that made the call returned to the traversal)
Call(op, ns, pod, ctr, e, items, out, ret) ==
    [op |-> op, ns |-> ns, pod |-> pod, ctr |-> ctr, err |-> e,
     items |-> items, stdout |-> out, ret |-> ret]

\* the error of the exec channel: of its creation, else of its stream
ChannelErr(answer) ==
    IF answer.executorErr # Nil THEN answer.executorErr ELSE answer.streamErr

CallsOf(op) == {c \in 1..Len(calls) : calls[c].op = op}

\* number of names the cluster has answered with in calls of kind op
RECURSIVE Served(_, _)
Served(op, n) ==
    IF n = 0 THEN 0
    ELSE Served(op, n - 1) + (IF calls[n].op = op THEN Len(calls[n].items) ELSE 0)

PodsLeft == MaxPods - Served("listPods", Len(calls))
ContainersLeft == MaxContainers - Served("listContainers", Len(calls))

\* ---------------------------------------------------------- the program
\* no function has been called on its own
NoUnit == [fn |-> "none"]

NoResult == [returned |-> FALSE, rootContainers |-> <<>>,
             errorContainers |-> <<>>, err |-> Nil]

Init ==
    /\ pc = "main"
    /\ authErr = Nil
    /\ excludeNamespaces = DefaultExclude
    /\ nsItems = <<>>
    /\ namespaces = <<>>
    /\ err = Nil
    /\ i = 0
    /\ pods = <<>>
    /\ j = 0
    /\ containers = <<>>
    /\ k = 0
    /\ rootContainers = <<>>
    /\ errorContainers = <<>>
    /\ result = NoResult
    /\ exitCode = -1
    /\ calls = <<>>
    /\ cancelled = FALSE
    /\ unit = NoUnit

\* a main that also exits with 1 when a probe failed
ExitCodeStrict(r) == IF r.err # Nil \/ r.errorContainers # <<>> THEN 1 ELSE 0

\* main after findContainersWithErrors returned r: os.Exit(1) on an error,
\* else both lists are printed and main ends
ExitCodeOf(r) == IF r.err # Nil THEN 1 ELSE 0

\* a function that blocks after the last namespace and never returns
ReturnNever ==
    /\ pc' = "blocked"
    /\ UNCHANGED <<result, exitCode>>
    /\ i' = 0 /\ pods' = <<>> /\ j' = 0 /\ containers' = <<>> /\ k' = 0

\* return rootContainers, errorContainers, nil; main prints them and ends
Return ==
    /\ pc' = "exited"
    /\ result' = [returned |-> TRUE, rootContainers |-> rootContainers',
                  errorContainers |-> errorContainers', err |-> Nil]
    /\ exitCode' = ExitCodeOf(result')
    /\ i' = 0 /\ pods' = <<>> /\ j' = 0 /\ containers' = <<>> /\ k' = 0

\* the namespace loop moves on (continue, or the pod loop is over)
NextNamespace ==
    IF i < Len(namespaces)
    THEN /\ pc' = "listPods"
         /\ i' = i + 1 /\ pods' = <<>> /\ j' = 0 /\ containers' = <<>> /\ k' = 0
         /\ UNCHANGED <<result, exitCode>>
    ELSE Return

\* the pod loop moves on (continue, or the container loop is over)
NextPod ==
    IF j < Len(pods)
    THEN /\ pc' = "listContainers"
         /\ j' = j + 1 /\ containers' = <<>> /\ k' = 0
         /\ UNCHANGED <<i, pods, result, exitCode>>
    ELSE NextNamespace

\* the container loop moves on
NextContainer ==
    IF k < Len(containers)
    THEN /\ pc' = "exec"
         /\ k' = k + 1
         /\ UNCHANGED <<i, pods, j, containers, result, exitCode>>
    ELSE NextPod

\* main: authenticateToCluster, and exit 1 when it fails
Authenticate ==
    /\ pc = "main"
    /\ \E e \in {Nil, ErrAuth} :
          /\ authErr' = e
          /\ IF e # Nil
             THEN /\ pc' = "exited"
                  /\ exitCode' = 1
             ELSE /\ pc' = "listNamespaces"
                  /\ UNCHANGED exitCode
    /\ UNCHANGED <<cancelled, unit, excludeNamespaces, nsItems, namespaces, err, i,
                   pods, j, containers, k, rootContainers, errorContainers, result,
                   calls>>

\* findContainersWithErrors up to the head of the namespace loop; when the
\* list call fails, the return of the error and main's os.Exit(1)
ListNamespaces ==
    /\ pc = "listNamespaces"
    /\ \E answer \in NamespaceAnswers :
          LET r == listNamespaces(answer, excludeNamespaces) IN
          /\ calls' = Append(calls, Call("listNamespaces", "", "", "",
                                         answer.err, answer.items, <<>>, r))
          /\ nsItems' = answer.items
          /\ namespaces' = r.names
          /\ err' = r.err
          /\ UNCHANGED <<rootContainers, errorContainers>>
          /\ IF r.err # Nil
             THEN /\ pc' = "exited"
                  /\ result' = [returned |-> TRUE, rootContainers |-> <<>>,
                                errorContainers |-> <<>>, err |-> r.err]
                  /\ exitCode' = ExitCodeOf(result')
                  /\ UNCHANGED <<i, pods, j, containers, k>>
             ELSE IF Len(r.names) = 0
             THEN Return
             ELSE /\ pc' = "listPods"
                  /\ i' = 1
                  /\ UNCHANGED <<pods, j, containers, k, result, exitCode>>
    /\ UNCHANGED <<cancelled, unit, authErr, excludeNamespaces>>

\* ListPods that returns from the function when the pod listing fails
ListPodsAbort ==
    /\ pc = "listPods"
    /\ \E answer \in PodAnswers(PodsLeft) :
          LET r == listPods(answer) IN
          /\ calls' = Append(calls, Call("listPods", namespaces[i], "", "",
                                         answer.err, answer.items, <<>>, r))
          /\ UNCHANGED <<rootContainers, errorContainers>>
          /\ IF r.err # Nil
             THEN Return
             ELSE IF Len(r.names) = 0
             THEN NextNamespace
             ELSE /\ pc' = "listContainers"
                  /\ pods' = r.names
                  /\ j' = 1
                  /\ UNCHANGED <<i, containers, k, result, exitCode>>
    /\ UNCHANGED <<cancelled, unit, authErr, excludeNamespaces, nsItems, namespaces, err>>

\* one turn of the namespace loop up to the head of the pod loop
ListPods ==
    /\ pc = "listPods"
    /\ \E answer \in PodAnswers(PodsLeft) :
          LET r == listPods(answer) IN
          /\ calls' = Append(calls, Call("listPods", namespaces[i], "", "",
                                         answer.err, answer.items, <<>>, r))
          /\ UNCHANGED <<rootContainers, errorContainers>>
          /\ IF r.err # Nil
             THEN NextNamespace
             ELSE IF Len(r.names) = 0
             THEN NextNamespace
             ELSE /\ pc' = "listContainers"
                  /\ pods' = r.names
                  /\ j' = 1
                  /\ UNCHANGED <<i, containers, k, result, exitCode>>
    /\ UNCHANGED <<cancelled, unit, authErr, excludeNamespaces, nsItems, namespaces, err>>

\* ListContainers that leaves the pod loop (break) when the listing fails
ListContainersBreak ==
    /\ pc = "listContainers"
    /\ \E answer \in ContainerAnswers(ContainersLeft) :
          LET r == listContainers(answer) IN
          /\ calls' = Append(calls, Call("listContainers", namespaces[i], pods[j], "",
                                         answer.err, answer.items, <<>>, r))
          /\ UNCHANGED <<rootContainers, errorContainers>>
          /\ IF r.err # Nil
             THEN NextNamespace
             ELSE IF Len(r.names) = 0
             THEN NextPod
             ELSE /\ pc' = "exec"
                  /\ containers' = r.names
                  /\ k' = 1
                  /\ UNCHANGED <<i, pods, j, result, exitCode>>
    /\ UNCHANGED <<cancelled, unit, authErr, excludeNamespaces, nsItems, namespaces, err>>

\* one turn of the pod loop up to the head of the container loop
ListContainers ==
    /\ pc = "listContainers"
    /\ \E answer \in ContainerAnswers(ContainersLeft) :
          LET r == listContainers(answer) IN
          /\ calls' = Append(calls, Call("listContainers", namespaces[i], pods[j], "",
                                         answer.err, answer.items, <<>>, r))
          /\ UNCHANGED <<rootContainers, errorContainers>>
          /\ IF r.err # Nil
             THEN NextPod
             ELSE IF Len(r.names) = 0
             THEN NextPod
             ELSE /\ pc' = "exec"
                  /\ containers' = r.names
                  /\ k' = 1
                  /\ UNCHANGED <<i, pods, j, result, exitCode>>
    /\ UNCHANGED <<cancelled, unit, authErr, excludeNamespaces, nsItems, namespaces, err>>

\* Exec that leaves the container loop (break) when the probe fails
ExecBreak ==
    /\ pc = "exec"
    /\ \E answer \in ExecAnswers :
          LET r == execCommandInContainer(answer)
              info == ContainerInfo(namespaces[i], pods[j], containers[k], command)
              c == Classify(rootContainers, errorContainers, info, r)
          IN
          /\ calls' = Append(calls, Call("exec", namespaces[i], pods[j], containers[k],
                                         ChannelErr(answer), <<>>, answer.stdout, r))
          /\ rootContainers' = c.rootContainers
          /\ errorContainers' = c.errorContainers
          /\ IF r.err # Nil THEN NextPod ELSE NextContainer
    /\ UNCHANGED <<cancelled, unit, authErr, excludeNamespaces, nsItems, namespaces, err>>

\* Exec that runs a failed probe a second time before it records the failure
ExecRetry ==
    /\ pc = "exec"
    /\ \E answer \in ExecAnswers :
          LET r == execCommandInContainer(answer)
              info == ContainerInfo(namespaces[i], pods[j], containers[k], command)
              c == Classify(rootContainers, errorContainers, info, r)
              first == ~(calls[Len(calls)].op = "exec"
                         /\ calls[Len(calls)].ctr = containers[k])
          IN
          /\ calls' = Append(calls, Call("exec", namespaces[i], pods[j], containers[k],
                                         ChannelErr(answer), <<>>, answer.stdout, r))
          /\ IF r.err # Nil /\ first
             THEN UNCHANGED <<pc, i, pods, j, containers, k, rootContainers,
                              errorContainers, result, exitCode>>
             ELSE /\ rootContainers' = c.rootContainers
                  /\ errorContainers' = c.errorContainers
                  /\ NextContainer
    /\ UNCHANGED <<cancelled, unit, authErr, excludeNamespaces, nsItems, namespaces, err>>

\* one turn of the container loop: the probe and its classification; after
\* the last container of the last pod of the last namespace, the return
Exec ==
    /\ pc = "exec"
    /\ \E answer \in ExecAnswers :
          LET r == execCommandInContainer(answer)
              info == ContainerInfo(namespaces[i], pods[j], containers[k], command)
              c == Classify(rootContainers, errorContainers, info, r)
          IN
          /\ calls' = Append(calls, Call("exec", namespaces[i], pods[j], containers[k],
                                         ChannelErr(answer), <<>>, answer.stdout, r))
          /\ rootContainers' = c.rootContainers
          /\ errorContainers' = c.errorContainers
          /\ NextContainer
    /\ UNCHANGED <<cancelled, unit, authErr, excludeNamespaces, nsItems, namespaces, err>>

Next ==
    \/ Authenticate
    \/ ListNamespaces
    \/ ListPods
    \/ ListContainers
    \/ Exec

Spec == Init /\ [][Next]_vars

\* ------------------------------------------ listNamespaces called directly
\* TestListNamespaces calls listNamespaces with an exclusion list of its own
InitNS ==
    /\ pc = "test"
    /\ authErr = Nil
    /\ excludeNamespaces \in AllSeqs(NamespaceNames, MaxExclude)
    /\ nsItems = <<>>
    /\ namespaces = <<>>
    /\ err = Nil
    /\ i = 0
    /\ pods = <<>>
    /\ j = 0
    /\ containers = <<>>
    /\ k = 0
    /\ rootContainers = <<>>
    /\ errorContainers = <<>>
    /\ result = NoResult
    /\ exitCode = -1
    /\ calls = <<>>
    /\ cancelled = FALSE
    /\ unit = NoUnit

TestListNamespaces ==
    /\ pc = "test"
    /\ \E answer \in NamespaceAnswers :
          LET r == listNamespaces(answer, excludeNamespaces) IN
          /\ calls' = Append(calls, Call("listNamespaces", "", "", "",
                                         answer.err, answer.items, <<>>, r))
          /\ nsItems' = answer.items
          /\ namespaces' = r.names
          /\ err' = r.err
    /\ pc' = "tested"
    /\ UNCHANGED <<cancelled, unit, authErr, excludeNamespaces, i, pods, j, containers, k,
                   rootContainers, errorContainers, result, exitCode>>

NextNS == TestListNamespaces

SpecNS == InitNS /\ [][NextNS]_vars

\* ================================================================ claims

NotExcluded(n) == n \notin Range(excludeNamespaces)

\* C1: on a successful list call listNamespaces returns the cluster's
\* namespace names in their listed order with exactly the names that are
\* elements of the exclusion list removed.
C1_ListNamespacesFilters ==
    (pc = "tested" /\ err = Nil) =>
        /\ namespaces = SelectSeq(nsItems, NotExcluded)
        /\ \A n \in Range(excludeNamespaces) : n \notin Range(namespaces)
        /\ \A n \in Range(nsItems) : NotExcluded(n) => n \in Range(namespaces)

\* C1 witness: a list of two names, the second name of the exclusion list
\* is the first of them, and the other one is returned
C1_Witness ==
    /\ pc = "tested" /\ err = Nil
    /\ Len(excludeNamespaces) = 2
    /\ Len(nsItems) = 2
    /\ nsItems[1] = excludeNamespaces[2]
    /\ namespaces = <<nsItems[2]>>

\* ----------------------------------------------- reading the call history
Records == Range(rootContainers) \cup Range(errorContainers)
IdOfInfo(r) == <<r.Namespace, r.PodName, r.Container>>
IdOfCall(c) == <<c.ns, c.pod, c.ctr>>
InfoOfCall(c) == [Namespace |-> c.ns, PodName |-> c.pod, Container |-> c.ctr,
                  CommandExec |-> "whoami"]
LastCall == calls[Len(calls)]
NamespaceListFailed == \E c \in CallsOf("listNamespaces") : calls[c].err # Nil
Returned == result.returned
ReturnedOk == result.returned /\ result.err = Nil

\* the namespaces asked for their pods, in the order of the calls
NamespacesListed ==
    LET s == SelectSeq(calls, LAMBDA c : c.op = "listPods")
    IN  [p \in 1..Len(s) |-> s[p].ns]
\* the pods of namespace ns asked for their containers, in the order of the calls
PodsListed(ns) ==
    LET s == SelectSeq(calls, LAMBDA c : c.op = "listContainers" /\ c.ns = ns)
    IN  [p \in 1..Len(s) |-> s[p].pod]
\* the containers of pod ns/pod that were probed, in the order of the calls
ContainersProbed(ns, pod) ==
    LET s == SelectSeq(calls, LAMBDA c : c.op = "exec" /\ c.ns = ns /\ c.pod = pod)
    IN  [p \in 1..Len(s) |-> s[p].ctr]

\* every namespace of the filtered list was asked for its pods
AllNamespacesListed == NamespacesListed = namespaces
\* every pod of every answered pod list was asked for its containers
AllPodsListed ==
    \A c \in CallsOf("listPods") :
        calls[c].err = Nil => PodsListed(calls[c].ns) = calls[c].items
\* every container of every answered container list was probed
AllContainersProbed ==
    \A c \in CallsOf("listContainers") :
        calls[c].err = Nil => ContainersProbed(calls[c].ns, calls[c].pod) = calls[c].items

\* C2: when the namespace list call fails the run halts at once: the error
\* is returned with two empty lists and no other remote call is ever issued.
C2_NamespaceFailureAborts ==
    NamespaceListFailed =>
        /\ pc = "exited"
        /\ Returned
        /\ result.err = calls[1].err /\ result.err # Nil
        /\ result.rootContainers = <<>> /\ result.errorContainers = <<>>
        /\ rootContainers = <<>> /\ errorContainers = <<>>
        /\ Len(calls) = 1
        /\ CallsOf("listPods") \cup CallsOf("listContainers") \cup CallsOf("exec") = {}

\* C2 witness: the namespace list call failed and the function has returned
C2_Witness ==
    /\ NamespaceListFailed
    /\ pc = "exited"
    /\ result.err = ErrList

\* C3: a failed pod listing skips its namespace only: nothing is listed,
\* probed or recorded for that namespace, the traversal goes on with the next
\* namespace of the sequence (or returns when there is none), every namespace
\* of the sequence is enumerated and probed by the time the function returns,
\* and no error is returned.
C3_PodListFailureSkipsNamespace ==
    /\ \A c \in CallsOf("listPods") :
          calls[c].err # Nil =>
             /\ \A d \in 1..Len(calls) :
                   calls[d].op \in {"listContainers", "exec"} => calls[d].ns # calls[c].ns
             /\ \A r \in Records : r.Namespace # calls[c].ns
             /\ result.err = Nil
             /\ Returned => (AllNamespacesListed /\ AllPodsListed /\ AllContainersProbed)
    /\ (Len(calls) > 0 /\ LastCall.op = "listPods" /\ LastCall.err # Nil) =>
          LET p == Len(NamespacesListed) IN
          /\ namespaces[p] = LastCall.ns
          /\ IF p < Len(namespaces)
             THEN pc = "listPods" /\ i = p + 1
             ELSE pc = "exited" /\ ReturnedOk

\* C3 witness: the pod listing of the first namespace failed, the second
\* namespace was enumerated and probed, and the function returned no error
C3_Witness ==
    /\ pc = "exited" /\ ReturnedOk
    /\ Len(namespaces) = 2
    /\ \E c \in CallsOf("listPods") : calls[c].ns = namespaces[1] /\ calls[c].err # Nil
    /\ \E c \in CallsOf("exec") : calls[c].ns = namespaces[2]
    /\ Records # {}

\* C4: a failed container listing skips its pod only: that pod is not probed
\* and not recorded, the traversal goes on with the next pod of the namespace
\* (or the next namespace, or returns), every pod of every answered pod list
\* and every namespace is processed by the time the function returns, and no
\* error is returned.
C4_ContainerListFailureSkipsPod ==
    /\ \A c \in CallsOf("listContainers") :
          calls[c].err # Nil =>
             /\ \A d \in CallsOf("exec") :
                   <<calls[d].ns, calls[d].pod>> # <<calls[c].ns, calls[c].pod>>
             /\ \A r \in Records :
                   <<r.Namespace, r.PodName>> # <<calls[c].ns, calls[c].pod>>
             /\ result.err = Nil
             /\ Returned => (AllPodsListed /\ AllNamespacesListed /\ AllContainersProbed)
    /\ (Len(calls) > 0 /\ LastCall.op = "listContainers" /\ LastCall.err # Nil) =>
          LET p == Len(NamespacesListed)
              q == Len(PodsListed(LastCall.ns))
          IN
          IF pc = "listContainers"
          THEN /\ i = p /\ namespaces[i] = LastCall.ns
               /\ j = q + 1 /\ pods[q] = LastCall.pod
          ELSE IF pc = "listPods"
          THEN i = p + 1 /\ namespaces[p] = LastCall.ns
          ELSE pc = "exited" /\ ReturnedOk /\ p = Len(namespaces)

\* C4 witness: the container listing of the first pod failed, the second pod
\* of the same namespace was probed, the next namespace was enumerated, and
\* the function returned no error
C4_Witness ==
    /\ pc = "exited" /\ ReturnedOk
    /\ Len(namespaces) = 2
    /\ \E c \in CallsOf("listPods") :
          /\ calls[c].ns = namespaces[1] /\ Len(calls[c].items) = 2
          /\ \E d \in CallsOf("listContainers") :
                /\ calls[d].ns = namespaces[1] /\ calls[d].pod = calls[c].items[1]
                /\ calls[d].err # Nil
          /\ \E d \in CallsOf("exec") :
                calls[d].ns = namespaces[1] /\ calls[d].pod = calls[c].items[2]
    /\ \E c \in CallsOf("listPods") : calls[c].ns = namespaces[2]

\* C5: a container whose probe fails is recorded in errorContainers and not
\* in rootContainers, the traversal goes on with the next container of the
\* pod (or the next pod, or the next namespace, or returns), and every
\* container, pod and namespace is processed by the time the function returns.
C5_ProbeFailureRecordedAndSkipped ==
    /\ \A c \in CallsOf("exec") :
          calls[c].err # Nil =>
             /\ \E r \in Range(errorContainers) : IdOfInfo(r) = IdOfCall(calls[c])
             /\ \A r \in Range(rootContainers) : IdOfInfo(r) # IdOfCall(calls[c])
             /\ Returned => (AllContainersProbed /\ AllPodsListed /\ AllNamespacesListed)
    /\ (Len(calls) > 0 /\ LastCall.op = "exec" /\ LastCall.err # Nil) =>
          LET p == Len(NamespacesListed)
              q == Len(PodsListed(LastCall.ns))
              n == Len(ContainersProbed(LastCall.ns, LastCall.pod))
          IN
          IF pc = "exec"
          THEN /\ i = p /\ j = q /\ k = n + 1 /\ containers[n] = LastCall.ctr
          ELSE IF pc = "listContainers"
          THEN i = p /\ j = q + 1 /\ pods[q] = LastCall.pod
          ELSE IF pc = "listPods"
          THEN i = p + 1 /\ namespaces[p] = LastCall.ns
          ELSE pc = "exited" /\ ReturnedOk /\ p = Len(namespaces)

\* C5 witness: the probe of the first of two containers of a pod failed, the
\* second one was probed, the pod of the next namespace was asked for its
\* containers, and the failed container is the one record of errorContainers
C5_Witness ==
    /\ pc = "exited" /\ ReturnedOk
    /\ Len(namespaces) = 2
    /\ \E c \in CallsOf("listContainers") :
          /\ calls[c].ns = namespaces[1] /\ Len(calls[c].items) = 2
          /\ calls[c + 1].op = "exec" /\ calls[c + 1].err # Nil
          /\ calls[c + 1].ctr = calls[c].items[1]
          /\ calls[c + 2].op = "exec" /\ calls[c + 2].err = Nil
          /\ calls[c + 2].ctr = calls[c].items[2]
          /\ errorContainers = <<InfoOfCall(calls[c + 1])>>
    /\ \E d \in CallsOf("listContainers") : calls[d].ns = namespaces[2]

\* the four characters r, o, o, t stand next to each other somewhere in s
HasRootSubstring(s) ==
    \E p \in 1..Len(s) :
        /\ p + 3 <= Len(s)
        /\ s[p] = "r" /\ s[p + 1] = "o" /\ s[p + 2] = "o" /\ s[p + 3] = "t"

\* C6: a probed container is recorded in rootContainers exactly when its
\* probe succeeded and the captured output contains "root" ("root\n" and
\* "groot\n" both do); a successful probe without "root" in its output is
\* recorded nowhere; every record names a probed container and "whoami".
C6_RootIffOutputContainsRoot ==
    /\ \A c \in CallsOf("exec") :
          /\ (\E r \in Range(rootContainers) : IdOfInfo(r) = IdOfCall(calls[c]))
                <=> (calls[c].err = Nil /\ HasRootSubstring(calls[c].stdout))
          /\ (calls[c].err = Nil /\ calls[c].stdout \in {RootLine, GrootLine})
                => InfoOfCall(calls[c]) \in Range(rootContainers)
          /\ (calls[c].err = Nil /\ ~HasRootSubstring(calls[c].stdout))
                => \A r \in Records : IdOfInfo(r) # IdOfCall(calls[c])
    /\ \A r \in Records :
          /\ r.CommandExec = "whoami"
          /\ \E c \in CallsOf("exec") : r = InfoOfCall(calls[c])

\* C6 witness: two successful probes answered "groot\n" and "nobody\n";
\* the first is the one record of rootContainers
C6_Witness ==
    /\ pc = "exited" /\ ReturnedOk
    /\ \E a, b \in CallsOf("exec") :
          /\ a < b
          /\ calls[a].err = Nil /\ calls[a].stdout = GrootLine
          /\ calls[b].err = Nil /\ calls[b].stdout = NobodyLine
          /\ rootContainers = <<InfoOfCall(calls[a])>>
          /\ errorContainers = <<>>

\* C7: rootContainers and errorContainers never share a container
\* (namespace, pod, container), neither while the traversal runs nor in the
\* returned result.
C7_Disjoint ==
    /\ \A a \in Range(rootContainers), b \in Range(errorContainers) :
          IdOfInfo(a) # IdOfInfo(b)
    /\ \A a \in Range(result.rootContainers), b \in Range(result.errorContainers) :
          IdOfInfo(a) # IdOfInfo(b)

\* C7 witness: a run returned with records in both lists, one of them for a
\* stream that had written "root" before it failed
C7_Witness ==
    /\ pc = "exited" /\ ReturnedOk
    /\ result.rootContainers # <<>>
    /\ result.errorContainers # <<>>
    /\ \E c \in CallsOf("exec") : calls[c].err = ErrStream /\ HasRootSubstring(calls[c].stdout)

DefaultExclusionSet == {"kube-system", "kube-public", "kube-node-lease"}

\* C8: no pod listing, container listing or probe is ever issued against
\* kube-system, kube-public or kube-node-lease, and no record names one.
C8_DefaultExcludedNeverVisited ==
    /\ \A c \in 1..Len(calls) : calls[c].ns \notin DefaultExclusionSet
    /\ \A r \in Records : r.Namespace \notin DefaultExclusionSet
    /\ \A r \in Range(result.rootContainers) \cup Range(result.errorContainers) :
          r.Namespace \notin DefaultExclusionSet
    /\ Range(namespaces) \cap DefaultExclusionSet = {}

\* C8 witness: the cluster listed kube-node-lease before default, and the
\* run probed a container of default and returned
C8_Witness ==
    /\ pc = "exited" /\ ReturnedOk
    /\ nsItems = <<"kube-node-lease", "default">>
    /\ \E c \in CallsOf("exec") : calls[c].ns = "default"

\* C9: the process exits with 1 exactly when authentication or the
\* namespace listing failed, and with 0 in every other run.
C9_ExitCode ==
    /\ pc = "exited" =>
          exitCode = (IF authErr # Nil \/ NamespaceListFailed THEN 1 ELSE 0)
    /\ pc # "exited" => exitCode = -1

\* C9 witness: exit code 0 after a failed pod listing, a failed container
\* listing and a failed probe
C9_Witness ==
    /\ pc = "exited" /\ exitCode = 0
    /\ errorContainers # <<>>
    /\ \E c \in CallsOf("listPods") : calls[c].err # Nil
    /\ \E c \in CallsOf("listContainers") : calls[c].err # Nil

Apple == <<"a", "p", "p", "l", "e">>
Banana == <<"b", "a", "n", "a", "n", "a">>
Cherry == <<"c", "h", "e", "r", "r", "y">>
Date == <<"d", "a", "t", "e">>
Grape == <<"g", "r", "a", "p", "e">>
Fruits == <<Apple, Banana, Cherry, Date>>
\* short strings: the empty one, two that differ in case only, one that has
\* another as a prefix and a third as a suffix, and a wildcard character
Words == {<<>>, <<"a">>, <<"A">>, <<"a", "b">>, <<"b">>, <<"*">>}

\* TestContainsString hands containsString a slice and a string
InitCS ==
    /\ pc = "test"
    /\ authErr = Nil
    /\ excludeNamespaces = <<>>
    /\ nsItems = <<>>
    /\ namespaces = <<>>
    /\ err = Nil
    /\ i = 0
    /\ pods = <<>>
    /\ j = 0
    /\ containers = <<>>
    /\ k = 0
    /\ rootContainers = <<>>
    /\ errorContainers = <<>>
    /\ result = NoResult
    /\ exitCode = -1
    /\ calls = <<>>
    /\ cancelled = FALSE
    /\ \E args \in (AllSeqs(Words, MaxSlice) \X Words)
                     \cup ({Fruits} \X {Apple, Banana, Cherry, Date, Grape}) :
          unit = [fn |-> "containsString", slice0 |-> args[1], slice |-> args[1],
                  str |-> args[2], done |-> FALSE, ret |-> FALSE]

TestContainsString ==
    /\ pc = "test"
    /\ unit.fn = "containsString"
    /\ unit' = [unit EXCEPT !.done = TRUE,
                            !.ret = containsString(unit.slice, unit.str)]
    /\ pc' = "tested"
    /\ UNCHANGED <<cancelled, authErr, excludeNamespaces, nsItems, namespaces, err, i,
                   pods, j, containers, k, rootContainers, errorContainers, result,
                   exitCode, calls>>

NextCS == TestContainsString

SpecCS == InitCS /\ [][NextCS]_vars

\* a and b have the same length and the same character at every position
SameString(a, b) ==
    /\ Len(a) = Len(b)
    /\ \A q \in 1..Len(a) : a[q] = b[q]

\* C11: containsString answers true exactly when some element of the slice
\* is the string itself, character for character (not in another case, not
\* a prefix, not a part of it), false for the empty slice, and leaves the
\* slice as it was; of apple, banana, cherry, date it finds apple and not
\* grape.
C11_ContainsStringExact ==
    (unit.fn = "containsString" /\ unit.done) =>
        /\ unit.ret <=> (\E p \in 1..Len(unit.slice) : SameString(unit.slice[p], unit.str))
        /\ unit.slice = <<>> => ~unit.ret
        /\ unit.slice = unit.slice0
        /\ (unit.slice = Fruits /\ unit.str = Grape) => ~unit.ret
        /\ (unit.slice = Fruits /\ unit.str \in {Apple, Banana, Cherry, Date}) => unit.ret

\* C11 witness: "a" is not found in a slice that holds "ab" and "A"
C11_Witness ==
    /\ unit.fn = "containsString" /\ unit.done
    /\ unit.slice = << <<"a", "b">>, <<"A">> >>
    /\ unit.str = <<"a">>
    /\ ~unit.ret

\* C12: one pass, no retry: the namespace list call is issued at most once,
\* the pod list call at most once per namespace of the filtered list, the
\* container list call at most once per listed pod, the probe at most once
\* per listed container and, by the return, exactly once; no call that
\* failed is issued again.
C12_SinglePassNoRetry ==
    /\ Cardinality(CallsOf("listNamespaces")) <= 1
    /\ \A c, d \in 1..Len(calls) :
          (c < d /\ calls[c].op = calls[d].op) => IdOfCall(calls[c]) # IdOfCall(calls[d])
    /\ \A c \in CallsOf("listPods") : calls[c].ns \in Range(namespaces)
    /\ \A c \in CallsOf("listContainers") :
          \E d \in CallsOf("listPods") :
             /\ d < c /\ calls[d].ns = calls[c].ns /\ calls[d].err = Nil
             /\ calls[c].pod \in Range(calls[d].items)
    /\ \A c \in CallsOf("exec") :
          \E d \in CallsOf("listContainers") :
             /\ d < c /\ calls[d].ns = calls[c].ns /\ calls[d].pod = calls[c].pod
             /\ calls[d].err = Nil
             /\ calls[c].ctr \in Range(calls[d].items)
    /\ ReturnedOk =>
          \A d \in CallsOf("listContainers") :
             \A n \in Range(calls[d].items) :
                Cardinality({c \in CallsOf("exec") :
                                IdOfCall(calls[c]) = <<calls[d].ns, calls[d].pod, n>>}) = 1

\* C12 witness: a pod listing, a container listing and a probe failed, and
\* the run ended with four calls after the namespace listing
C12_Witness ==
    /\ pc = "exited" /\ ReturnedOk
    /\ Len(calls) = 6
    /\ calls[2].op = "listPods" /\ calls[2].err # Nil
    /\ calls[3].op = "listPods" /\ Len(calls[3].items) = 2
    /\ calls[4].op = "listContainers" /\ calls[4].err # Nil
    /\ calls[5].op = "listContainers" /\ Len(calls[5].items) = 1
    /\ calls[6].op = "exec" /\ calls[6].err # Nil

\* ------------------------------------------------------------ termination
\* the traversal is sequential and every remote call returns a result or
\* an error, so a step that can be taken is taken
FairSpec == Spec /\ WF_vars(Next)

NamespaceListAnswered == \E c \in CallsOf("listNamespaces") : calls[c].err = Nil

\* C13: every run ends, and a run whose namespace listing was answered ends
\* with findContainersWithErrors having returned both lists and no error,
\* whatever pod listings, container listings and probes failed on the way.
C13_Terminates ==
    /\ <>(pc = "exited")
    /\ NamespaceListAnswered ~> (pc = "exited" /\ ReturnedOk /\ exitCode = 0)

\* C13 witness: a run that ended after a failed pod listing, a failed
\* container listing and a failed probe, and returned both lists
C13_Witness ==
    /\ pc = "exited" /\ ReturnedOk
    /\ \E c \in CallsOf("listPods") : calls[c].err # Nil
    /\ \E c \in CallsOf("listContainers") : calls[c].err # Nil
    /\ \E c \in CallsOf("exec") : calls[c].err # Nil
    /\ result.errorContainers # <<>>
    /\ result.rootContainers = <<>>

\* ----------------------------------------------------------- cancellation
\* the caller asks for the running traversal to be cancelled.  Every remote
\* call is made with context.TODO() (Stream with no context at all) and
\* findContainersWithErrors takes no context, so the request changes nothing
\* the traversal reads.
Cancel ==
    /\ pc \in {"listNamespaces", "listPods", "listContainers", "exec"}
    /\ ~cancelled
    /\ cancelled' = TRUE
    /\ UNCHANGED <<pc, authErr, excludeNamespaces, nsItems, namespaces, err, i, pods,
                   j, containers, k, rootContainers, errorContainers, result,
                   exitCode, calls, unit>>

NextCancel ==
    \/ Next
    \/ Cancel

SpecCancel == Init /\ [][NextCancel]_vars

\* C14: once the caller has cancelled, the traversal issues no further
\* remote call.
C14_CancelStopsCalls == [][cancelled => calls' = calls]_vars

\* ---------------------------------------------------------------- order
IsPrefix(s, t) == Len(s) <= Len(t) /\ \A p \in 1..Len(s) : s[p] = t[p]
IndexOf(seq, x) == CHOOSE p \in 1..Len(seq) : seq[p] = x
\* the pod list answered for namespace ns, the container list answered for ns/pod
PodListOf(ns) ==
    calls[CHOOSE d \in CallsOf("listPods") : calls[d].ns = ns /\ calls[d].err = Nil].items
ContainerListOf(ns, pod) ==
    calls[CHOOSE d \in CallsOf("listContainers") :
             calls[d].ns = ns /\ calls[d].pod = pod /\ calls[d].err = Nil].items
\* place of a record's container in the traversal: namespace, pod, container
PlaceOf(r) ==
    <<IndexOf(namespaces, r.Namespace),
      IndexOf(PodListOf(r.Namespace), r.PodName),
      IndexOf(ContainerListOf(r.Namespace, r.PodName), r.Container)>>
Before(a, b) ==
    \/ a[1] < b[1]
    \/ a[1] = b[1] /\ a[2] < b[2]
    \/ a[1] = b[1] /\ a[2] = b[2] /\ a[3] < b[3]
\* the probe call of a record's container
ProbeOf(r) == CHOOSE c \in CallsOf("exec") : IdOfCall(calls[c]) = IdOfInfo(r)

InTraversalOrder(list) ==
    \A p, q \in 1..Len(list) :
        p < q => /\ ProbeOf(list[p]) < ProbeOf(list[q])
                 /\ Before(PlaceOf(list[p]), PlaceOf(list[q]))

\* C15: in rootContainers and in errorContainers a record stands before
\* another exactly when its container was probed first, that is when its
\* namespace, then its pod, then its container comes first in the lists the
\* cluster answered with; a step only appends to the lists.
C15_TraversalOrder ==
    /\ [](InTraversalOrder(rootContainers) /\ InTraversalOrder(errorContainers))
    /\ [][/\ IsPrefix(rootContainers, rootContainers')
          /\ IsPrefix(errorContainers, errorContainers')]_vars

\* C15 witness: a pod listed sidecar before busybox, both answered root, and
\* rootContainers holds sidecar's record before busybox's
C15_Witness ==
    /\ pc = "exited" /\ ReturnedOk
    /\ Len(rootContainers) = 2
    /\ rootContainers[1].Container = "sidecar"
    /\ rootContainers[2].Container = "busybox"
    /\ rootContainers[1].PodName = rootContainers[2].PodName

\* C16: when the exec channel cannot be created or its stream ends with an
\* error, execCommandInContainer returns the empty string and that error,
\* whatever stdout had captured; the container is recorded in errorContainers
\* and not in rootContainers, also when "root" had been captured.
C16_FailedProbeReturnsNoOutput ==
    \A c \in CallsOf("exec") :
        calls[c].err # Nil =>
           /\ calls[c].ret.output = <<>>
           /\ calls[c].ret.err = calls[c].err
           /\ InfoOfCall(calls[c]) \in Range(errorContainers)
           /\ \A r \in Range(rootContainers) : IdOfInfo(r) # IdOfCall(calls[c])

\* C16 witness: a stream wrote "root" and then failed; the probe returned the
\* empty string and the container is the one record, an error record
C16_Witness ==
    /\ pc = "exited" /\ ReturnedOk
    /\ LastCall.op = "exec"
    /\ LastCall.err = ErrStream
    /\ LastCall.stdout = RootWord
    /\ LastCall.ret = [output |-> <<>>, err |-> ErrStream]
    /\ result.errorContainers = <<InfoOfCall(LastCall)>>
    /\ result.rootContainers = <<>>

====
